---- MODULE Spec2Model ----
(***************************************************************************)
(* wp_get.py: GET Wikipedia article content from title, URL or filename.   *)
(*                                                                         *)
(* Strings are Python 2 byte strings, modelled as sequences of one-byte    *)
(* tokens ("a", "[", "\n", ...).  The pilcrow is the two bytes             *)
(* '\xc2\xb6', written "xc2", "xb6".  A parsed document is the tree that   *)
(* html5lib builds: whether it holds the node the XPATH names, and that    *)
(* node's element children, each with its tag, its text and its tail (the  *)
(* text that follows the element, which lxml's tostring serializes with    *)
(* it).  Children are element nodes with text; the texts hold no character *)
(* that the markup serialization escapes.                                  *)
(***************************************************************************)
EXTENDS Naturals, Sequences, FiniteSets, TLC

VARIABLES
    pc,          \* position of the run
    input,       \* args.title, the command line's positional argument
    title,       \* article's parameter title (rebound to the URL at line 98)
    epedia,      \* flag -e
    lead,        \* flag -l
    markdown,    \* flag -m
    strip,       \* flag -s
    fs,          \* what the path `title` names: "absent", "file" or "dir"
    r,           \* the response of requests.get
    gets,        \* the URLs of the GETs issued so far
    stderr,      \* bytes written to sys.stderr
    stdout,      \* the strings printed to standard output
    output,      \* article's local `output`
    error,       \* the exception that ended the run
    html,        \* _process's argument html, as the tree parsed from it
    p_lead,      \* _process's local `lead`
    strip_tags,  \* _process's local `strip_tags`
    root,        \* _process's local `root`, the xpath matches
    idx,         \* position of the for loop in root[0]
    fragments,   \* _process's local `content` while it is a list
    content,     \* `content` once it is a string (_process and _epedia)
    last_char,   \* _epedia's local `last_char`
    e_in         \* the string _epedia was called with

vars ==
    <<pc, input, title, epedia, lead, markdown, strip, fs, r, gets, stderr,
      stdout, output, error, html, p_lead, strip_tags, root, idx, fragments,
      content, last_char, e_in>>

-----------------------------------------------------------------------------
(* Bounds *)

MaxChildren == 4
MaxBody == 1
MaxPieces == 4

(* Program constants *)

TIMEOUT == 30
HTTP_OK == 200

XPATH == "//*[@id=\"mw-content-text\"]"

BASE == <<"https://en.wikipedia.org/wiki">>

PILCROW == <<"xc2", "xb6">>

-----------------------------------------------------------------------------
(* Python string primitives *)

Digits == {"0", "1", "2", "3", "4", "5", "6", "7", "8", "9"}

Whitespace == {" ", "\n", "\t", "\r"}

startswith_exact(s, prefix) ==
    s = prefix

startswith(s, prefix) ==
    /\ Len(s) >= Len(prefix)
    /\ SubSeq(s, 1, Len(prefix)) = prefix

RECURSIVE replace_first(_, _, _)
replace_first(s, old, new) ==
    IF s = <<>> THEN <<>>
    ELSE IF Head(s) = old THEN <<new>> \o Tail(s)
    ELSE <<Head(s)>> \o replace_first(Tail(s), old, new)

RECURSIVE replace(_, _, _)
replace(s, old, new) ==
    IF s = <<>> THEN <<>>
    ELSE <<IF Head(s) = old THEN new ELSE Head(s)>> \o replace(Tail(s), old, new)

RECURSIVE lstrip(_)
lstrip(s) ==
    IF s # <<>> /\ Head(s) \in Whitespace THEN lstrip(Tail(s)) ELSE s

RECURSIVE rstrip(_)
rstrip(s) ==
    IF s # <<>> /\ s[Len(s)] \in Whitespace
    THEN rstrip(SubSeq(s, 1, Len(s) - 1))
    ELSE s

str_strip(s) ==
    rstrip(lstrip(s))

\* s[-n:]
last(s, n) ==
    IF Len(s) <= n THEN s ELSE SubSeq(s, Len(s) - n + 1, Len(s))

\* s[:-n]
drop_last(s, n) ==
    IF Len(s) <= n THEN <<>> ELSE SubSeq(s, 1, Len(s) - n)

RECURSIVE join_plain(_, _)
join_plain(sep, list) ==
    IF list = <<>> THEN <<>>
    ELSE Head(list) \o join_plain(sep, Tail(list))

RECURSIVE join(_, _)
join(sep, list) ==
    IF list = <<>> THEN <<>>
    ELSE IF Len(list) = 1 THEN Head(list)
    ELSE Head(list) \o sep \o join(sep, Tail(list))

-----------------------------------------------------------------------------
(* re.sub(r"\[\d+\]", '', content) and re.sub(r"\n{2,}", " \xc2\xb6 ", content) *)

RECURSIVE run_end(_, _, _)
\* the first position at or after i whose byte is not in `class`
run_end(s, i, class) ==
    IF i <= Len(s) /\ s[i] \in class THEN run_end(s, i + 1, class) ELSE i

\* the position after the match of \[\d+\] that starts at i, or 0
match_citation(s, i) ==
    IF s[i] # "["
    THEN 0
    ELSE LET j == run_end(s, i + 1, Digits)
         IN  IF j > i + 1 /\ j <= Len(s) /\ s[j] = "]" THEN j + 1 ELSE 0

\* the position after the match of \n{2,} that starts at i, or 0
match_newlines(s, i) ==
    LET j == run_end(s, i, {"\n"})
    IN  IF j >= i + 2 THEN j ELSE 0

\* the position after the match of \n+ that starts at i, or 0
match_newlines_1(s, i) ==
    LET j == run_end(s, i, {"\n"})
    IN  IF j >= i + 1 THEN j ELSE 0

RECURSIVE sub_citation_from(_, _, _)
sub_citation_from(s, i, repl) ==
    IF i > Len(s) THEN <<>>
    ELSE LET e == match_citation(s, i)
         IN  IF e # 0
             THEN repl \o sub_citation_from(s, e, repl)
             ELSE <<s[i]>> \o sub_citation_from(s, i + 1, repl)

RECURSIVE sub_newlines_from(_, _, _)
sub_newlines_from(s, i, repl) ==
    IF i > Len(s) THEN <<>>
    ELSE LET e == match_newlines(s, i)
         IN  IF e # 0
             THEN repl \o sub_newlines_from(s, e, repl)
             ELSE <<s[i]>> \o sub_newlines_from(s, i + 1, repl)

RECURSIVE sub_newlines_1_from(_, _, _)
sub_newlines_1_from(s, i, repl) ==
    IF i > Len(s) THEN <<>>
    ELSE LET e == match_newlines_1(s, i)
         IN  IF e # 0
             THEN repl \o sub_newlines_1_from(s, e, repl)
             ELSE <<s[i]>> \o sub_newlines_1_from(s, i + 1, repl)

sub_citations_space(s) ==
    sub_citation_from(s, 1, <<" ">>)

\* line 58
sub_citations(s) ==
    sub_citation_from(s, 1, <<>>)

sub_newlines_1(s) ==
    sub_newlines_1_from(s, 1, <<" ">> \o PILCROW \o <<" ">>)

\* line 59
sub_newlines(s) ==
    sub_newlines_from(s, 1, <<" ">> \o PILCROW \o <<" ">>)

trim_pilcrow_unstripped(s) ==
    IF last(s, 2) = PILCROW THEN drop_last(s, 2) ELSE s

\* lines 60-62
trim_pilcrow(s) ==
    IF last(str_strip(s), 2) = PILCROW THEN drop_last(str_strip(s), 2) ELSE s

\* lines 57-63 as one function
_epedia(s) ==
    trim_pilcrow(sub_newlines(sub_citations(s)))

-----------------------------------------------------------------------------
(* lxml.etree.tostring and html2text *)

\* lines 51-54: the element and, as lxml does by default, its tail
_tostring(elem, strip_tags_) ==
    IF strip_tags_
    THEN elem.text \o elem.tail
    ELSE <<"<">> \o elem.tag \o <<">">> \o elem.text
             \o <<"</">> \o elem.tag \o <<">">> \o elem.tail

\* line 107: html2text is an external transform, left uninterpreted
html2text(s) ==
    <<"html2text(">> \o s \o <<")">>

-----------------------------------------------------------------------------
(* Inputs *)

P == <<"p">>

Tags == {P, <<"u", "l">>, <<"p", "r", "e">>, <<"h", "2">>,
         <<"h", "e", "a", "d", "e", "r">>}

Texts == {<<"a">>, <<"b", "[", "1", "]">>}

Tails == {<<>>, <<"\n">>}

\* paragraphs vary in text and tail; the other elements do not
Nodes ==
    {n \in [tag : Tags, text : Texts, tail : Tails] :
        n.tag # P => (n.text = <<"a">> /\ n.tail = <<>>)}

SeqsUpTo(S, n) ==
    UNION {[1..k -> S] : k \in 0..n}

NoRegion == [region |-> FALSE, children |-> <<>>]

Docs(n) ==
    {NoRegion} \cup {[region |-> TRUE, children |-> c] : c \in SeqsUpTo(Nodes, n)}

Titles == {<<"h", "t", "t", "p", ":", "/", "x">>,
           <<"F", "o", "o", " ", "B", "a", "r">>,
           <<"h", "t", "t", " ", "p", " ", "s">>}

Statuses == {200, 404, 500}

Pieces == {<<"a">>, <<"1">>, <<"[">>, <<"]">>, <<"[", "1", "]">>,
           <<"\n">>, <<" ">>, PILCROW}

EpediaInputs ==
    {join(<<>>, ps) : ps \in SeqsUpTo(Pieces, MaxPieces)}

NoError == [kind |-> "none", code |-> 0]

NoResponse == [status_code |-> 0, content |-> NoRegion]

-----------------------------------------------------------------------------
(* Initial states *)

ProcessLocalsInit ==
    /\ p_lead = FALSE
    /\ strip_tags = FALSE
    /\ root = <<>>
    /\ idx = 1
    /\ fragments = <<>>
    /\ content = <<>>
    /\ last_char = <<>>
    /\ e_in = <<>>

IOInit ==
    /\ r = NoResponse
    /\ gets = <<>>
    /\ stderr = <<>>
    /\ stdout = <<>>
    /\ output = <<>>
    /\ error = NoError

\* lines 116-131: a run of the program
Init ==
    /\ pc = "article"
    /\ input \in Titles
    /\ title = input
    /\ epedia \in BOOLEAN
    /\ lead \in BOOLEAN
    /\ markdown \in BOOLEAN
    /\ strip \in BOOLEAN
    /\ fs \in {"absent", "file", "dir"}
    /\ html = NoRegion
    /\ IOInit
    /\ ProcessLocalsInit

\* a call of _process(html, XPATH, lead, strip, epedia)
ProcessInit ==
    /\ pc = "process"
    /\ input = <<>>
    /\ title = <<>>
    /\ epedia \in BOOLEAN
    /\ lead \in BOOLEAN
    /\ markdown = FALSE
    /\ strip \in BOOLEAN
    /\ fs = "file"
    /\ html \in Docs(MaxChildren)
    /\ IOInit
    /\ ProcessLocalsInit

\* a call of _epedia(content)
EpediaInit ==
    /\ pc = "epedia"
    /\ input = <<>>
    /\ title = <<>>
    /\ epedia = TRUE
    /\ lead = FALSE
    /\ markdown = FALSE
    /\ strip = FALSE
    /\ fs = "file"
    /\ html = NoRegion
    /\ IOInit
    /\ p_lead = TRUE
    /\ strip_tags = TRUE
    /\ root = <<>>
    /\ idx = 1
    /\ fragments = <<>>
    /\ content \in EpediaInputs
    /\ last_char = <<>>
    /\ e_in = content

-----------------------------------------------------------------------------
(* article, lines 89-108, and _main, lines 111-113 *)

articleVars == <<input, title, epedia, lead, markdown, strip, fs>>
ioVars == <<r, gets, stderr, stdout, output, error>>
processVars == <<p_lead, strip_tags, root, idx, fragments, content, last_char, e_in>>

\* lines 92-94: the path exists and opens
OpenFile ==
    /\ pc = "article"
    /\ fs = "file"
    /\ \E body \in Docs(MaxBody) : html' = body
    /\ pc' = "process"
    /\ UNCHANGED <<articleVars, ioVars, processVars>>

\* lines 92-93: os.path.exists is true of a directory, open raises
OpenDirectory ==
    /\ pc = "article"
    /\ fs = "dir"
    /\ error' = [kind |-> "IOError", code |-> 0]
    /\ pc' = "raised"
    /\ UNCHANGED <<articleVars, r, gets, stderr, stdout, output, html, processVars>>

\* lines 96-99
BuildUrl ==
    /\ pc = "article"
    /\ fs = "absent"
    /\ title' = IF ~startswith(title, <<"h", "t", "t", "p">>)
                THEN BASE \o <<"/">> \o replace(title, " ", "_")
                ELSE title
    /\ stderr' = stderr \o <<"GET ">> \o title' \o <<" ">>
    /\ pc' = "get"
    /\ UNCHANGED <<input, epedia, lead, markdown, strip, fs, r, gets, stdout,
                   output, error, html, processVars>>

\* lines 100-102: the request is answered
Get ==
    /\ pc = "get"
    /\ gets' = Append(gets, title)
    /\ \E status \in Statuses, body \in Docs(MaxBody) :
           r' = [status_code |-> status, content |-> body]
    /\ stderr' = stderr \o <<ToString(r'.status_code), "\n">>
    /\ pc' = "status"
    /\ UNCHANGED <<articleVars, stdout, output, error, html, processVars>>

\* line 100: the request raises (timeout, connection error)
GetRaises ==
    /\ pc = "get"
    /\ gets' = Append(gets, title)
    /\ error' = [kind |-> "RequestException", code |-> 0]
    /\ pc' = "raised"
    /\ UNCHANGED <<articleVars, r, stderr, stdout, output, html, processVars>>

CheckStatusLax ==
    /\ pc = "status"
    /\ html' = r.content
    /\ pc' = "process"
    /\ UNCHANGED <<articleVars, ioVars, processVars>>

\* lines 103-105
CheckStatus ==
    /\ pc = "status"
    /\ IF r.status_code # HTTP_OK
       THEN /\ error' = [kind |-> "ValueError", code |-> r.status_code]
            /\ pc' = "raised"
            /\ UNCHANGED html
       ELSE /\ html' = r.content
            /\ pc' = "process"
            /\ UNCHANGED error
    /\ UNCHANGED <<articleVars, r, gets, stderr, stdout, output, processVars>>

\* lines 94/105 (the assignment of _process's result) and 106-108
ArticleReturn ==
    /\ pc = "processed"
    /\ output' = IF markdown THEN html2text(content) ELSE content
    /\ pc' = "main"
    /\ UNCHANGED <<articleVars, r, gets, stderr, stdout, error, html, processVars>>

\* line 113
MainPrint ==
    /\ pc = "main"
    /\ stdout' = Append(stdout, output)
    /\ pc' = "done"
    /\ UNCHANGED <<articleVars, r, gets, stderr, output, error, html, processVars>>

-----------------------------------------------------------------------------
(* _process, lines 66-86 *)

NormaliseLeadOnly ==
    /\ pc = "process"
    /\ p_lead' = (epedia \/ lead)
    /\ strip_tags' = strip
    /\ fragments' = <<>>
    /\ pc' = "parse"
    /\ UNCHANGED <<articleVars, ioVars, html, root, idx, content, last_char, e_in>>

\* lines 66-70
Normalise ==
    /\ pc = "process"
    /\ p_lead' = IF epedia THEN TRUE ELSE lead
    /\ strip_tags' = IF epedia THEN TRUE ELSE strip
    /\ fragments' = <<>>
    /\ pc' = "parse"
    /\ UNCHANGED <<articleVars, ioVars, html, root, idx, content, last_char, e_in>>

\* lines 71-74: the tree is parsed and queried
Locate ==
    /\ pc = "parse"
    /\ root' = IF html.region THEN <<html.children>> ELSE <<>>
    /\ idx' = 1
    /\ pc' = "for"
    /\ UNCHANGED <<articleVars, ioVars, html, p_lead, strip_tags, fragments,
                   content, last_char, e_in>>

NoRegionSilent ==
    /\ pc = "for"
    /\ root = <<>>
    /\ pc' = "join"
    /\ UNCHANGED <<articleVars, ioVars, html, processVars>>

\* line 75: root[0] of an empty list
NoRegionRaises ==
    /\ pc = "for"
    /\ root = <<>>
    /\ error' = [kind |-> "IndexError", code |-> 0]
    /\ pc' = "raised"
    /\ UNCHANGED <<articleVars, r, gets, stderr, stdout, output, html, processVars>>

\* lines 75-82: one iteration of the loop
ForStep ==
    /\ pc = "for"
    /\ root # <<>>
    /\ idx <= Len(root[1])
    /\ LET item == root[1][idx]
       IN  IF p_lead
           THEN IF startswith(item.tag, <<"h">>)
                THEN /\ pc' = "join"
                     /\ UNCHANGED <<idx, fragments>>
                ELSE /\ fragments' = IF item.tag = P
                                     THEN Append(fragments, _tostring(item, strip_tags))
                                     ELSE fragments
                     /\ idx' = idx + 1
                     /\ pc' = "for"
           ELSE /\ fragments' = Append(fragments, _tostring(item, strip_tags))
                /\ idx' = idx + 1
                /\ pc' = "for"
    /\ UNCHANGED <<articleVars, ioVars, html, p_lead, strip_tags, root, content,
                   last_char, e_in>>

\* line 75: the children are exhausted
ForEnd ==
    /\ pc = "for"
    /\ root # <<>>
    /\ idx > Len(root[1])
    /\ pc' = "join"
    /\ UNCHANGED <<articleVars, ioVars, html, processVars>>

\* lines 83-85
Join ==
    /\ pc = "join"
    /\ content' = join(<<"\n">>, fragments)
    /\ IF epedia
       THEN /\ e_in' = content'
            /\ pc' = "epedia"
       ELSE /\ UNCHANGED e_in
            /\ pc' = "return"
    /\ UNCHANGED <<articleVars, ioVars, html, p_lead, strip_tags, root, idx,
                   fragments, last_char>>

\* line 86
ProcessReturn ==
    /\ pc \in {"return", "epedia_return"}
    /\ pc' = "processed"
    /\ UNCHANGED <<articleVars, ioVars, html, processVars>>

-----------------------------------------------------------------------------
(* _epedia, lines 57-63 *)

epediaFrame ==
    <<articleVars, ioVars, html, p_lead, strip_tags, root, idx, fragments, e_in>>

\* line 58
EpediaCitations ==
    /\ pc = "epedia"
    /\ content' = sub_citations(content)
    /\ pc' = "epedia_59"
    /\ UNCHANGED <<epediaFrame, last_char>>

\* line 59
EpediaNewlines ==
    /\ pc = "epedia_59"
    /\ content' = sub_newlines(content)
    /\ pc' = "epedia_60"
    /\ UNCHANGED <<epediaFrame, last_char>>

\* lines 60-63
EpediaTrim ==
    /\ pc = "epedia_60"
    /\ last_char' = last(str_strip(content), 2)
    /\ content' = trim_pilcrow(content)
    /\ pc' = "epedia_return"
    /\ UNCHANGED epediaFrame

-----------------------------------------------------------------------------
(* Specifications *)

NextEpedia ==
    \/ EpediaCitations
    \/ EpediaNewlines
    \/ EpediaTrim

NextProcess ==
    \/ Normalise
    \/ Locate
    \/ NoRegionRaises
    \/ ForStep
    \/ ForEnd
    \/ Join
    \/ EpediaCitations
    \/ EpediaNewlines
    \/ EpediaTrim
    \/ ProcessReturn

Next ==
    \/ OpenFile
    \/ OpenDirectory
    \/ BuildUrl
    \/ Get
    \/ GetRaises
    \/ CheckStatus
    \/ Normalise
    \/ Locate
    \/ NoRegionRaises
    \/ ForStep
    \/ ForEnd
    \/ Join
    \/ EpediaCitations
    \/ EpediaNewlines
    \/ EpediaTrim
    \/ ProcessReturn
    \/ ArticleReturn
    \/ MainPrint

\* a run of the program
Spec == Init /\ [][Next]_vars

\* _process on every document and policy
ProcessSpec == ProcessInit /\ [][NextProcess]_vars

\* _epedia on every string
EpediaSpec == EpediaInit /\ [][NextEpedia]_vars

-----------------------------------------------------------------------------
(* Vocabulary of the properties *)

SEPARATOR == <<" ">> \o PILCROW \o <<" ">>

AfterLoop == {"join", "return", "epedia", "epedia_59", "epedia_60",
              "epedia_return", "processed"}

\* the k-th smallest member of a set of numbers
Nth(S, k) ==
    CHOOSE i \in S : Cardinality({j \in S : j <= i}) = k

\* the bytes of s at the positions in S, in order
Restrict(s, S) ==
    [k \in 1..Cardinality(S) |-> s[Nth(S, k)]]

EndsWith(s, suffix) ==
    /\ Len(s) >= Len(suffix)
    /\ \A k \in 1..Len(suffix) : s[Len(s) - Len(suffix) + k] = suffix[k]

\* s without its leading and trailing whitespace
Trimmed(s) ==
    LET NonWs == {i \in 1..Len(s) : s[i] \notin Whitespace}
    IN  IF NonWs = {} THEN <<>>
        ELSE SubSeq(s, CHOOSE i \in NonWs : \A j \in NonWs : i <= j,
                       CHOOSE i \in NonWs : \A j \in NonWs : i >= j)

\* positions i..j of s hold a bracketed integer
Marker(s, i, j) ==
    /\ j > i + 1
    /\ s[i] = "["
    /\ s[j] = "]"
    /\ \A k \in (i + 1)..(j - 1) : s[k] \in Digits

HasMarker(s) ==
    \E i, j \in 1..Len(s) : Marker(s, i, j)

\* the positions of s that lie inside a bracketed integer
Covered(s) ==
    {k \in 1..Len(s) : \E i \in 1..k, j \in k..Len(s) : Marker(s, i, j)}

\* a bracketed integer preceded by an open bracket and digits only: "[[1]", "[2[1]"
Nested(s) ==
    \E o, i, j \in 1..Len(s) :
        /\ o < i
        /\ Marker(s, i, j)
        /\ s[o] = "["
        /\ \A k \in (o + 1)..(i - 1) : s[k] \in Digits

HasNewlineRun(s) ==
    \E i \in 1..(Len(s) - 1) : s[i] = "\n" /\ s[i + 1] = "\n"

Clean(s) ==
    ~HasMarker(s) /\ ~HasNewlineRun(s)

\* the first child whose tag starts with "h", or one past the last child
FirstH(ch) ==
    LET H == {i \in 1..Len(ch) : ch[i].tag[1] = "h"}
    IN  IF H = {} THEN Len(ch) + 1 ELSE CHOOSE i \in H : \A j \in H : i <= j

\* the paragraphs of the lead
LeadIndices(ch) ==
    {i \in 1..(FirstH(ch) - 1) : ch[i].tag = P}

RECURSIVE Offset(_, _)
\* where the i-th fragment starts in the joined string, less one
Offset(list, i) ==
    IF i = 1 THEN 0 ELSE Offset(list, i - 1) + Len(list[i - 1]) + 1

CountSeparators(s) ==
    Cardinality({i \in 1..Len(s) : i + 3 <= Len(s) /\ SubSeq(s, i, i + 3) = SEPARATOR})

-----------------------------------------------------------------------------
(* Properties *)

C2_PolicyNormalised ==
    /\ (epedia /\ pc \notin {"article", "get", "status", "process", "raised"}) =>
           (p_lead /\ strip_tags)
    /\ (epedia /\ pc = "processed" /\ html.region) =>
           LET ch == html.children
               L == LeadIndices(ch)
               texts == [k \in 1..Cardinality(L) |->
                            ch[Nth(L, k)].text \o ch[Nth(L, k)].tail]
           IN  content = _epedia(join(<<"\n">>, texts))

C2_Witness ==
    /\ pc = "processed"
    /\ epedia /\ ~lead /\ ~strip
    /\ html.region
    /\ Len(html.children) = 3
    /\ html.children[1].tag = <<"u", "l">>
    /\ html.children[2].tag = P
    /\ html.children[3].tag = <<"h", "2">>
    /\ content = html.children[2].text \o html.children[2].tail

\* C3: full mode (neither lead nor epedia): one fragment per child, in document
\* order, and the result is the fragments with one newline between neighbours.
C3_FullMode ==
    (pc \in {"return", "processed"} /\ ~lead /\ ~epedia /\ html.region) =>
        LET ch == html.children
            n == Len(ch)
        IN  /\ Len(fragments) = n
            /\ \A i \in 1..n : fragments[i] = _tostring(ch[i], strip)
            /\ Len(content) = IF n = 0 THEN 0
                              ELSE Offset(fragments, n) + Len(fragments[n])
            /\ \A i \in 1..n :
                   /\ SubSeq(content, Offset(fragments, i) + 1,
                             Offset(fragments, i) + Len(fragments[i])) = fragments[i]
                   /\ i < n => content[Offset(fragments, i) + Len(fragments[i]) + 1] = "\n"

C3_Witness ==
    /\ pc = "processed"
    /\ ~lead /\ ~epedia /\ ~strip
    /\ html.region
    /\ Len(html.children) = 3
    /\ html.children[1].tag = <<"h", "2">>
    /\ html.children[2].tag = <<"u", "l">>
    /\ html.children[3].tag = P
    /\ Len(fragments) = 3

\* C4: condensed output is a single line: when the lead has two or more
\* paragraphs, the result of _process with epedia holds no newline, one ' ¶ '
\* between consecutive paragraphs, and no separator at its end.
C4_SingleLine ==
    (pc = "processed" /\ epedia /\ html.region
       /\ Cardinality(LeadIndices(html.children)) >= 2) =>
        /\ \A i \in 1..Len(content) : content[i] # "\n"
        /\ CountSeparators(content) = Cardinality(LeadIndices(html.children)) - 1
        /\ ~EndsWith(Trimmed(content), PILCROW)

\* C5 as stated: the output of _epedia holds no bracketed integer, for every input.
C5_NoMarkerLeft ==
    pc = "epedia_return" => ~HasMarker(content)

\* C5 as amended: line 58 deletes every bracketed integer of its input and puts
\* nothing in its place, and the output of _epedia holds no bracketed integer
\* provided no bracketed integer of the input is nested in another bracket.
C5_CitationsRemoved ==
    /\ pc = "epedia_59" =>
           content = Restrict(e_in, (1..Len(e_in)) \ Covered(e_in))
    /\ (pc = "epedia_return" /\ ~Nested(e_in)) => ~HasMarker(content)

C5_Witness ==
    /\ pc = "epedia_return"
    /\ HasMarker(e_in)
    /\ ~Nested(e_in)
    /\ e_in[1] = "a"
    /\ e_in[Len(e_in)] = "a"
    /\ content = <<"a", "a">>

\* C6 as stated: the last step removes a trailing pilcrow-plus-space marker and
\* nothing else, leaves a string with any other ending untouched, and its output
\* never ends in a separator with nothing after it.
C6_TrailingMarkerOnly ==
    [][pc = "epedia_60" =>
         /\ IF EndsWith(content, PILCROW \o <<" ">>)
            THEN content' \o PILCROW \o <<" ">> = content
            ELSE content' = content
         /\ ~EndsWith(Trimmed(content'), PILCROW)]_vars

\* C6 as amended: if the string, once trimmed of surrounding whitespace, ends with
\* the two-byte pilcrow, the output is the trimmed string less that one pilcrow;
\* otherwise the last step leaves the string untouched, untrimmed.
C6_Trim ==
    [][pc = "epedia_60" =>
         IF EndsWith(Trimmed(content), PILCROW)
         THEN content' \o PILCROW = Trimmed(content)
         ELSE content' = content]_vars

\* a trailing separator made by line 59 was cut, behind leading whitespace
C6_Witness ==
    /\ pc = "epedia_return"
    /\ last_char = PILCROW
    /\ e_in = <<" ", "a", "\n", "\n">>
    /\ content = <<"a", " ">>

\* C7: when the query matches no node the run fails (root[0] raises IndexError)
\* under every policy, and nothing is returned or printed.
C7_MissingRegion ==
    (/\ ~html.region
     /\ pc \notin {"article", "get", "status", "process", "parse"}
     /\ error.kind \notin {"IOError", "RequestException", "ValueError"}) =>
        /\ pc \in {"for", "raised"}
        /\ pc = "raised" => error.kind = "IndexError"
        /\ output = <<>>
        /\ stdout = <<>>

C7_Witness ==
    /\ pc = "raised"
    /\ error.kind = "IndexError"
    /\ fs = "absent"
    /\ r.status_code = 200
    /\ epedia /\ markdown

\* C8: a status other than 200 makes article fail with an error carrying the
\* status; 'GET <url> <status>' is on stderr by then, _process never runs on the
\* body and nothing reaches standard output.
C8_FetchFailure ==
    (r.status_code \notin {0, 200}) =>
        /\ pc \in {"status", "raised"}
        /\ pc = "raised" => error = [kind |-> "ValueError", code |-> r.status_code]
        /\ stderr = <<"GET ">> \o title \o <<" ", ToString(r.status_code), "\n">>
        /\ html = NoRegion
        /\ fragments = <<>> /\ content = <<>> /\ output = <<>>
        /\ stdout = <<>>

C8_Witness ==
    /\ pc = "raised"
    /\ r.status_code = 404
    /\ error.kind = "ValueError"
    /\ error.code = 404
    /\ r.content.region

\* C9: if the input names an existing path no GET is ever issued; otherwise
\* exactly one GET is issued, to the input itself when it starts with 'http' and
\* else to 'https://en.wikipedia.org/wiki/' and the input with '_' for each space.
C9_SourceResolution ==
    LET http == /\ Len(input) >= 4
                /\ input[1] = "h" /\ input[2] = "t"
                /\ input[3] = "t" /\ input[4] = "p"
        target == IF http THEN input
                  ELSE BASE \o <<"/">> \o
                       [i \in 1..Len(input) |->
                           IF input[i] = " " THEN "_" ELSE input[i]]
    IN  /\ fs # "absent" => gets = <<>>
        /\ fs = "absent" =>
               IF pc \in {"article", "get"} THEN gets = <<>> ELSE gets = <<target>>

C9_Witness ==
    /\ pc = "done"
    /\ fs = "absent"
    /\ input = <<"F", "o", "o", " ", "B", "a", "r">>
    /\ gets = <<BASE \o <<"/", "F", "o", "o", "_", "B", "a", "r">>>>

\* C10 as stated: on a string with no bracketed integer and no run of two or more
\* newlines, _epedia returns the input unchanged up to surrounding whitespace.
C10_CleanUnchanged ==
    (pc = "epedia_return" /\ Clean(e_in)) => Trimmed(content) = Trimmed(e_in)

\* C10 as amended: on such a string whose trimmed form does not end with the
\* pilcrow, _epedia returns the input unchanged.
C10_CleanNoPilcrowUnchanged ==
    (pc = "epedia_return" /\ Clean(e_in) /\ ~EndsWith(Trimmed(e_in), PILCROW)) =>
        content = e_in

C10_Witness ==
    /\ pc = "epedia_return"
    /\ e_in = <<"a", "\n", "[", " ">>
    /\ content = e_in

====
